---- MODULE Spec2Model ----
(***************************************************************************)
(* Verification model of the knight-code provider pipeline:               *)
(*   - the provider selector / failover orchestrator (src/ai/index.ts),    *)
(*   - the connectivity probes of the two adapters                         *)
(*     (src/ai/ollama-client.ts, src/ai/lmstudio-client.ts),               *)
(*   - the retry + timeout wrapped completion call of both adapters.       *)
(* Time is a discrete-event clock `now` (milliseconds) that jumps to the   *)
(* next armed timer; HTTP answers arrive at nondeterministic instants.     *)
(***************************************************************************)
EXTENDS Integers, Sequences, FiniteSets, TLC

VARIABLES
  aiClient,         \* index.ts:16   0 = null, otherwise an adapter id
  currentProvider,  \* index.ts:17
  adapters,         \* heap of adapter instances created so far (id = index)
  calls,            \* the initAI invocations started so far
  lastGet,          \* outcome of the callers' latest getAIClient().complete()
  now,              \* clock, ms
  ccall,            \* the complete() invocation under observation
  probeOps,         \* getModels() / testConnection() invocations on the client
  completions,      \* complete() / completeStream() invocations and what
                    \* they returned or yielded
  heap,             \* the retryOptions objects, by reference
  clients,          \* adapter instances whose config holds such a reference
  got,              \* the objects getConfig() returned to callers
  lastRequest,      \* the latest completion request built from options
  cli,              \* the run of the command line program
  auth              \* an AuthManager, its token storage and its operations

vars ==
  <<aiClient, currentProvider, adapters, calls, lastGet, now, ccall, probeOps,
    completions, heap, clients, got, lastRequest, cli, auth>>

\* the adapters' configuration objects seen by reference
cfgVars == <<heap, clients, got>>

\* what initAI, getAIClient, setPreferredProvider and complete() leave alone
opVars ==
  <<probeOps, completions, heap, clients, got, lastRequest, cli, auth>>

orchVars == <<aiClient, currentProvider, adapters, calls, lastGet>>

----------------------------------------------------------------------------
(* Bounds *)
MaxCalls == 2          \* initAI invocations per behaviour

----------------------------------------------------------------------------
(* Data *)
KnownProviders == {"ollama", "lmstudio"}

AIProviderType == {"ollama", "lmstudio", "anthropic"}

\* config.provider as handed to initAI; "" stands for absent / falsy
ConfigProviders == {"", "ollama", "lmstudio"}

\* how the backend answers one HTTP request of a probe, if it answers:
\* 200 with models, 200 with an empty model list, a non-2xx status, a
\* network failure, or 200 with a body that is not JSON
ProbeAnswers == {"ok", "ok_empty", "http_error", "refused", "malformed"}

NoError ==
  [name |-> "", category |-> "", message |-> "", mentions |-> {}, cause |-> ""]

\* new UserError(message, options): category from options, default unknown
UserError(message, category, mentions, cause) ==
  [name |-> "UserError",
   category |-> IF category = "" THEN "unknown" ELSE category,
   message |-> message, mentions |-> mentions, cause |-> cause]

\* thrown inside initAI when both probes are false
ConnectFailure ==
  UserError("Failed to connect to any AI service", "connection",
            {"ollama", "lmstudio"}, "")

\* what the catch block of initAI throws, wrapping any error of the try block
InitFailure(cause) ==
  UserError("Failed to initialize AI capabilities", "initialization",
            {"ollama", "lmstudio"}, cause.category)

\* what getAIClient throws when aiClient is null
NotInitialized ==
  UserError("AI module not initialized", "initialization", {}, "")

----------------------------------------------------------------------------
(* Adapter configuration *)

\* ollama-client.ts DEFAULT_CONFIG
OllamaDefaultConfig ==
  [apiBaseUrl |-> "http://localhost:11434",
   timeout |-> 60000,
   retryOptions |-> [maxRetries |-> 3, initialDelayMs |-> 1000, maxDelayMs |-> 10000],
   defaultModel |-> "devstral:24b"]

\* lmstudio-client.ts DEFAULT_CONFIG
LMStudioDefaultConfig ==
  [apiBaseUrl |-> "http://localhost:1234",
   timeout |-> 60000,
   retryOptions |-> [maxRetries |-> 3, initialDelayMs |-> 1000, maxDelayMs |-> 10000],
   defaultModel |-> "default"]

DefaultConfig(kind) ==
  IF kind = "lmstudio" THEN LMStudioDefaultConfig ELSE OllamaDefaultConfig

\* { ...base, ...partial }: a shallow merge, keys of partial win
ShallowMerge(base, partial) ==
  [k \in (DOMAIN base) \cup (DOMAIN partial) |->
     IF k \in DOMAIN partial THEN partial[k] ELSE base[k]]

\* the keys of initAI's config object that the adapters read
AdapterKeys == {"apiBaseUrl", "timeout", "retryOptions", "defaultModel"}

Restrict(f, keys) == [k \in (DOMAIN f) \cap keys |-> f[k]]

\* the private field this.model of the LM Studio adapter, initialised from
\* this.config.defaultModel; the Ollama adapter has no such field
InitialModel(kind, config) ==
  IF kind = "lmstudio" THEN config.defaultModel ELSE ""

\* the adapter constructors: this.config = { ...DEFAULT_CONFIG, ...config }
\* (probe is a history field: the outcome of testConnection() on it)
NewAdapter(kind, config) ==
  LET merged == ShallowMerge(DefaultConfig(kind), Restrict(config, AdapterKeys))
  IN [provider |-> kind,
      config |-> merged,
      model |-> InitialModel(kind, merged),
      probe |-> "pending"]

GetModel_Config(kind, inst) == inst.config.defaultModel

\* getModel() on an adapter instance inst
GetModel(kind, inst) ==
  IF kind = "lmstudio" THEN inst.model ELSE inst.config.defaultModel

\* the instance after setModel(model)
WithModel(kind, inst, model) ==
  IF kind = "lmstudio" THEN [inst EXCEPT !.model = model]
  ELSE [inst EXCEPT !.config.defaultModel = model]

\* the instance after updateConfig(partial)
WithConfig(inst, partial) ==
  [inst EXCEPT !.config = ShallowMerge(@, partial)]

\* the nested retryOptions objects of the two DEFAULT_CONFIG constants:
\* reference 1 is the one of ollama-client.ts, 2 the one of
\* lmstudio-client.ts
DefaultHeap ==
  <<OllamaDefaultConfig.retryOptions, LMStudioDefaultConfig.retryOptions>>

\* where DEFAULT_CONFIG.retryOptions of an adapter module lives
DefaultRetryRef(kind) == IF kind = "lmstudio" THEN 2 ELSE 1

\* no completion request built yet
NoRequest == [client |-> 0]

\* the command line program is not running
CliOff == [pc |-> "off"]

\* currentToken = null, and a key token storage holds nothing under
NoToken == "null"

\* no AuthManager constructed
AuthOff == [state |-> "unloaded"]

\* both modules loaded, no adapter constructed by reference yet
NoClients ==
  /\ heap = DefaultHeap
  /\ clients = <<>>
  /\ got = <<>>

----------------------------------------------------------------------------
(* Connectivity probes *)

AdapterFor_Swapped(provider) ==
  IF provider = "lmstudio" THEN "ollama" ELSE "lmstudio"

\* which adapter class initAI instantiates for a provider name
AdapterFor(provider) ==
  IF provider = "lmstudio" THEN "lmstudio" ELSE "ollama"

\* a fallback that instantiates the preferred adapter class again
AlternateProvider_Same(provider) == AdapterFor(provider)

\* the adapter initAI falls back to when the first probe is false
AlternateProvider(provider) ==
  IF provider = "lmstudio" THEN "ollama" ELSE "lmstudio"

\* LMStudioClient.testConnection wraps its fetch in withTimeout;
\* OllamaClient.testConnection (getModels -> sendRequest -> fetch, then a
\* bare fetch) does not
ProbeHasTimeout(kind) == kind = "lmstudio"

\* response.ok: the answer carries a 2xx status
ResponseOk(answer) == answer \in {"ok", "ok_empty", "malformed"}

\* OllamaClient.getModels: any failure of the request is swallowed as []
OllamaGetModels(answer) ==
  IF answer = "ok" THEN "some" ELSE "none"

\* OllamaClient.testConnection, given the answers to GET /api/tags from
\* getModels() and from the health check that follows an empty list
OllamaTestConnection(answer1, answer2) ==
  IF OllamaGetModels(answer1) = "some" THEN TRUE
  ELSE ResponseOk(answer2)

\* LMStudioClient.testConnection, given the answer to GET /v1/models
LMStudioTestConnection(answer) == answer \in {"ok", "ok_empty"}

TestConnection(kind, answer1, answer2) ==
  IF kind = "lmstudio" THEN LMStudioTestConnection(answer1)
  ELSE OllamaTestConnection(answer1, answer2)

----------------------------------------------------------------------------
(* Orchestrator: initAI, getAIClient, setPreferredProvider *)

InProgress(c) == calls[c].pc \in {"probe1", "probe2"}

\* the adapter whose testConnection() call c is awaiting
Probing(c) == calls[c].tried[Len(calls[c].tried)]

AnyInProgress == \E c \in 1..Len(calls) : InProgress(c)

\* getAIClient()
GetAIClientResult ==
  IF aiClient = 0
  THEN [status |-> "error", client |-> 0, error |-> NotInitialized]
  ELSE [status |-> "ok", client |-> aiClient, error |-> NoError]

\* initAI up to its first await: the preferred adapter is created, stored
\* in aiClient and its testConnection() is started
InitAI(config) ==
  /\ Len(calls) < MaxCalls
  /\ LET provider == IF config.provider # "" THEN config.provider
                     ELSE currentProvider
         kind == AdapterFor(provider)
         id == Len(adapters) + 1
         call == [pc |-> "probe1", config |-> Restrict(config, AdapterKeys),
                  preferred |-> provider, tried |-> <<id>>,
                  first |-> "none", second |-> "none",
                  result |-> 0, error |-> NoError,
                  alone |-> ~AnyInProgress]
     IN /\ adapters' = Append(adapters, NewAdapter(kind, config))
        /\ aiClient' = id
        /\ currentProvider' = kind
        /\ calls' = Append([c \in 1..Len(calls) |->
                              IF InProgress(c)
                              THEN [calls[c] EXCEPT !.alone = FALSE]
                              ELSE calls[c]], call)
  /\ UNCHANGED <<lastGet, now, ccall>>
  /\ UNCHANGED opVars

\* initAI from the point where the testConnection() of call c settled
\* with r, up to its next await or its return / throw
AfterProbe(c, r) ==
  LET call == calls[c]
      res == IF r THEN "true" ELSE "false"
      probed == [adapters EXCEPT ![Probing(c)].probe = res]
  IN IF r
     THEN /\ adapters' = probed
          /\ calls' = [calls EXCEPT ![c] =
                         [call EXCEPT !.pc = "resolved",
                                      !.first = IF call.pc = "probe1" THEN res ELSE @,
                                      !.second = IF call.pc = "probe2" THEN res ELSE @,
                                      !.result = aiClient]]
          /\ UNCHANGED <<aiClient, currentProvider>>
     ELSE IF call.pc = "probe1"
     THEN LET kind == AlternateProvider(call.preferred)
              id == Len(adapters) + 1
          IN /\ adapters' = Append(probed, NewAdapter(kind, call.config))
             /\ aiClient' = id
             /\ currentProvider' = kind
             /\ calls' = [calls EXCEPT ![c] =
                            [call EXCEPT !.pc = "probe2", !.first = res,
                                         !.tried = Append(@, id)]]
     ELSE /\ adapters' = probed
          /\ calls' = [calls EXCEPT ![c] =
                         [call EXCEPT !.pc = "rejected", !.second = res,
                                      !.error = InitFailure(ConnectFailure)]]
          /\ UNCHANGED <<aiClient, currentProvider>>

\* what testConnection() can resolve to, over all backend answers
ProbeResults(kind) ==
  {TestConnection(kind, answer1, answer2) : answer1, answer2 \in ProbeAnswers}

\* the backend answers the HTTP requests of the probe of call c and
\* testConnection() settles with r
ProbeSettles(c, r) ==
  /\ c \in 1..Len(calls)
  /\ InProgress(c)
  /\ r \in ProbeResults(adapters[Probing(c)].provider)
  /\ AfterProbe(c, r)
  /\ UNCHANGED <<lastGet, now, ccall>>
  /\ UNCHANGED opVars

\* the withTimeout timer of the probe of call c fires before the backend
\* answered: testConnection catches the Timeout and returns false
ProbeTimeout(c) ==
  /\ c \in 1..Len(calls)
  /\ InProgress(c)
  /\ ProbeHasTimeout(adapters[Probing(c)].provider)
  /\ AfterProbe(c, FALSE)
  /\ UNCHANGED <<lastGet, now, ccall>>
  /\ UNCHANGED opVars

\* a caller runs getAIClient().complete(...): getAIClient() throws, or the
\* completion request goes to the adapter it returns at that moment
CallerComplete ==
  /\ lastGet' = GetAIClientResult
  /\ UNCHANGED <<aiClient, currentProvider, adapters, calls, now, ccall>>
  /\ UNCHANGED opVars

\* setPreferredProvider(provider)
SetPreferredProvider(provider) ==
  /\ currentProvider' = provider
  /\ UNCHANGED <<aiClient, adapters, calls, lastGet, now, ccall>>
  /\ UNCHANGED opVars

----------------------------------------------------------------------------
(* complete(): the HTTP call under withTimeout under withRetry *)

MaxRetriesCfg == 5     \* largest retryOptions.maxRetries a caller configures

\* how the backend answers one completion request, if it answers: 200 with
\* a JSON body, a non-2xx status, a network failure, 200 with a body that
\* is not JSON
CompleteAnswers == {"ok", "http_error", "refused", "malformed"}

Min2(a, b) == IF a <= b THEN a ELSE b

\* withTimeout(op, d): the instant at which a call started at t fails with
\* Timeout unless op settled before
TimeoutDeadline(t, d) == t + d

\* withRetry: the pause after failed attempt number attempt (0-based)
BackoffDelay(opts, attempt) ==
  Min2(opts.maxDelayMs, opts.initialDelayMs * (2 ^ attempt))

\* withRetry: no attempt follows failed attempt number attempt (0-based)
RetryExhausted(opts, attempt) == attempt >= opts.maxRetries

CompleteTimeoutMs_MaxDelay(config) == config.retryOptions.maxDelayMs

\* the duration complete() hands to withTimeout: this.config.timeout
CompleteTimeoutMs(config) == config.timeout

CompleteRetryOptions_Default(kind, config) == DefaultConfig(kind).retryOptions

CompleteRetryOptions_Swapped(kind, config) ==
  [maxRetries |-> config.retryOptions.maxRetries,
   initialDelayMs |-> config.retryOptions.maxDelayMs,
   maxDelayMs |-> config.retryOptions.initialDelayMs]

\* the options complete() hands to withRetry
CompleteRetryOptions(kind, config) == config.retryOptions

AttemptTimerStart_Outer(callStart, attemptStart) == callStart

\* retryFn = withRetry(withTimeout(send, timeout), ...): withRetry invokes
\* the timeout-wrapped operation anew for each attempt, so the timer of an
\* attempt starts when the attempt starts
AttemptTimerStart(callStart, attemptStart) == attemptStart

AttemptOutcome_NoThrow(kind, answer) ==
  IF answer = "refused" THEN "rejected" ELSE "resolved"

\* how the operation wrapped by withTimeout/withRetry settles on a backend
\* answer.  Ollama: sendRequest = fetch, throw on !response.ok, then
\* response.json().  LM Studio: the bare fetch, which resolves with the
\* Response whatever its status and leaves the body unread
AttemptOutcome(kind, answer) ==
  IF kind = "lmstudio"
  THEN IF answer = "refused" THEN "rejected" ELSE "resolved"
  ELSE IF answer = "ok" THEN "resolved" ELSE "rejected"

\* a plain Error, as complete() of the Ollama adapter throws
PlainError(message) ==
  [name |-> "Error", category |-> "", message |-> message,
   mentions |-> {}, cause |-> ""]

\* what complete() does once retryFn rejected with failure
CompleteRejection(kind, failure) ==
  IF kind = "lmstudio"
  THEN UserError("Failed to complete text with LM Studio", "api",
                 {"lmstudio"}, failure)
  ELSE PlainError("Unknown error")

\* what complete() does once retryFn resolved on a backend answer
CompleteResolution(kind, answer) ==
  IF kind = "lmstudio"
  THEN IF answer = "http_error"
       THEN [status |-> "error",
             error |-> UserError("LM Studio API error", "api", {"lmstudio"},
                                 "http_error")]
       ELSE IF answer = "malformed"
       THEN [status |-> "error",
             error |-> CompleteRejection(kind, "malformed")]
       ELSE [status |-> "ok", error |-> NoError]
  ELSE [status |-> "ok", error |-> NoError]

RequestUrl_Other(config) ==
  IF config.apiBaseUrl = OllamaDefaultConfig.apiBaseUrl
  THEN LMStudioDefaultConfig.apiBaseUrl ELSE OllamaDefaultConfig.apiBaseUrl

\* the server a request of complete() is sent to: the adapter's own
\* this.config.apiBaseUrl
RequestUrl(config) == config.apiBaseUrl

CIdle ==
  [pc |-> "idle", kind |-> "", client |-> 0, targets |-> {}, model |-> "",
   attempt |-> 0, callStart |-> 0, start |-> 0,
   deadline |-> 0, wake |-> 0, prevEnd |-> 0, gaps |-> <<>>, http |-> 0,
   seen |-> {}, abandoned |-> 0, timedOut |-> FALSE,
   timeoutMs |-> 0,
   retry |-> [maxRetries |-> 0, initialDelayMs |-> 0, maxDelayMs |-> 0],
   lastFailure |-> [attempt |-> 0, kind |-> ""],
   retryError |-> [attempt |-> 0, kind |-> ""],
   result |-> [status |-> "none", error |-> NoError]]

\* a caller runs getAIClient().complete(options): the request body, naming
\* the adapter's model, is built once for all attempts and the first attempt
\* is issued (targets is a history field: the servers attempts were sent to)
Complete ==
  /\ ccall.pc = "idle"
  /\ aiClient # 0
  /\ LET a == adapters[aiClient]
     IN ccall' = [CIdle EXCEPT
                    !.pc = "attempt", !.kind = a.provider, !.attempt = 1,
                    !.client = aiClient, !.targets = {RequestUrl(a.config)},
                    !.model = GetModel(a.provider, a),
                    !.callStart = now, !.start = now, !.http = 1,
                    !.timeoutMs = CompleteTimeoutMs(a.config),
                    !.retry = CompleteRetryOptions(a.provider, a.config),
                    !.deadline = TimeoutDeadline(AttemptTimerStart(now, now),
                                                 CompleteTimeoutMs(a.config))]
  /\ UNCHANGED <<aiClient, currentProvider, adapters, calls, lastGet, now>>
  /\ UNCHANGED opVars

\* withRetry once the current attempt failed with cc.lastFailure: give
\* up and surface that failure, or sleep the backoff delay
AfterFailure(cc) ==
  IF RetryExhausted(cc.retry, cc.attempt - 1)
  THEN [cc EXCEPT !.pc = "done", !.retryError = cc.lastFailure,
                  !.prevEnd = now,
                  !.result = [status |-> "error",
                              error |-> CompleteRejection(cc.kind,
                                                          cc.lastFailure.kind)]]
  ELSE [cc EXCEPT !.pc = "sleep", !.prevEnd = now,
                  !.wake = now + BackoffDelay(cc.retry, cc.attempt - 1)]

\* the backend answers the request of the current attempt
BackendAnswers(answer) ==
  /\ ccall.pc = "attempt"
  /\ ccall' = IF AttemptOutcome(ccall.kind, answer) = "resolved"
              THEN [ccall EXCEPT !.pc = "done", !.seen = @ \cup {answer},
                                 !.prevEnd = now,
                                 !.result = CompleteResolution(ccall.kind, answer)]
              ELSE AfterFailure([ccall EXCEPT
                                   !.seen = @ \cup {answer},
                                   !.lastFailure = [attempt |-> ccall.attempt,
                                                    kind |-> answer]])
  /\ UNCHANGED <<aiClient, currentProvider, adapters, calls, lastGet, now>>
  /\ UNCHANGED opVars

\* the withTimeout timer of the current attempt fires first: the attempt
\* fails with Timeout and its HTTP request is abandoned, not cancelled
AttemptTimeout ==
  /\ ccall.pc = "attempt"
  /\ now = ccall.deadline
  /\ ccall' = AfterFailure([ccall EXCEPT
                              !.abandoned = @ + 1, !.timedOut = TRUE,
                              !.seen = @ \cup {"timeout"},
                              !.lastFailure = [attempt |-> ccall.attempt,
                                               kind |-> "timeout"]])
  /\ UNCHANGED <<aiClient, currentProvider, adapters, calls, lastGet, now>>
  /\ UNCHANGED opVars

\* the backoff sleep of withRetry ends and the next attempt is issued
Wake ==
  /\ ccall.pc = "sleep"
  /\ now = ccall.wake
  /\ ccall' = [ccall EXCEPT
                 !.pc = "attempt", !.attempt = @ + 1, !.http = @ + 1,
                 !.start = now, !.gaps = Append(@, now - ccall.prevEnd),
                 !.targets = @ \cup {RequestUrl(adapters[ccall.client].config)},
                 !.timedOut = FALSE,
                 !.deadline = TimeoutDeadline(
                                AttemptTimerStart(ccall.callStart, now),
                                ccall.timeoutMs)]
  /\ UNCHANGED <<aiClient, currentProvider, adapters, calls, lastGet, now>>
  /\ UNCHANGED opVars

\* an HTTP request abandoned by a timeout settles after all (the backend
\* answers late or the connection breaks): nobody listens any more
AbandonedSettles ==
  /\ ccall.abandoned > 0
  /\ ccall' = [ccall EXCEPT !.abandoned = @ - 1]
  /\ UNCHANGED <<aiClient, currentProvider, adapters, calls, lastGet, now>>
  /\ UNCHANGED opVars

\* instants at which a timer of the complete() call is due
CompleteTimers ==
  IF ccall.pc = "attempt" THEN {ccall.deadline}
  ELSE IF ccall.pc = "sleep" THEN {ccall.wake} ELSE {}

\* time passes until the next timer is due
AdvanceTime ==
  /\ CompleteTimers # {}
  /\ \A t \in CompleteTimers : t > now
  /\ now' \in CompleteTimers
  /\ UNCHANGED <<aiClient, currentProvider, adapters, calls, lastGet, ccall>>
  /\ UNCHANGED opVars

----------------------------------------------------------------------------
(* Specification of the orchestrator *)

InitConfigs == {[provider |-> p] : p \in ConfigProviders}

Init ==
  /\ aiClient = 0
  /\ currentProvider = "ollama"
  /\ adapters = <<>>
  /\ calls = <<>>
  /\ lastGet = [status |-> "none", client |-> 0, error |-> NoError]
  /\ now = 0
  /\ ccall = CIdle
  /\ probeOps = <<>>
  /\ completions = <<>>
  /\ NoClients
  /\ lastRequest = NoRequest
  /\ cli = CliOff
  /\ auth = AuthOff

Next ==
  \/ \E config \in InitConfigs : InitAI(config)
  \/ \E c \in 1..MaxCalls, r \in BOOLEAN : ProbeSettles(c, r)
  \/ \E c \in 1..MaxCalls : ProbeTimeout(c)
  \/ CallerComplete
  \/ \E p \in AIProviderType : SetPreferredProvider(p)

Spec == Init /\ [][Next]_vars

----------------------------------------------------------------------------
(* Specification of one complete() call on a freshly initialised adapter *)

RetryChoices ==
  {[maxRetries |-> n, initialDelayMs |-> 1000, maxDelayMs |-> 10000] :
     n \in 0..MaxRetriesCfg}
  \cup {[maxRetries |-> 2, initialDelayMs |-> 3000, maxDelayMs |-> 5000]}

CompleteConfigs ==
  {[provider |-> p] : p \in KnownProviders}
  \cup {[provider |-> p, retryOptions |-> r] :
          p \in KnownProviders, r \in RetryChoices}
  \cup {[provider |-> p, timeout |-> 50, retryOptions |-> r] :
          p \in KnownProviders, r \in RetryChoices}

\* the state initAI(config) leaves behind when its first probe is true
ReadyState(config) ==
  /\ aiClient = 1
  /\ currentProvider = config.provider
  /\ adapters = <<[NewAdapter(AdapterFor(config.provider), config)
                     EXCEPT !.probe = "true"]>>
  /\ calls = <<[pc |-> "resolved", config |-> Restrict(config, AdapterKeys),
                preferred |-> config.provider, tried |-> <<1>>,
                first |-> "true", second |-> "none",
                result |-> 1, error |-> NoError, alone |-> TRUE]>>

InitComplete ==
  /\ \E config \in CompleteConfigs : ReadyState(config)
  /\ lastGet = [status |-> "none", client |-> 0, error |-> NoError]
  /\ now = 0
  /\ ccall = CIdle
  /\ probeOps = <<>>
  /\ completions = <<>>
  /\ NoClients
  /\ lastRequest = NoRequest
  /\ cli = CliOff
  /\ auth = AuthOff

NextComplete ==
  \/ Complete
  \/ \E answer \in CompleteAnswers : BackendAnswers(answer)
  \/ AttemptTimeout
  \/ Wake
  \/ AbandonedSettles
  \/ AdvanceTime

SpecComplete == InitComplete /\ [][NextComplete]_vars

\* the same transitions, with the one piece of scheduling the code
\* guarantees: an armed withTimeout timer fires.  Nothing obliges a
\* backend to answer.
FairSpec ==
  /\ Init
  /\ [][Next]_vars
  /\ \A c \in 1..MaxCalls : WF_vars(ProbeTimeout(c))

----------------------------------------------------------------------------
(* Claims about the orchestrator *)

Resolved(c) == calls[c].pc = "resolved"

SomeResolved == \E c \in 1..Len(calls) : Resolved(c)

\* call c ran with no other initAI in progress, its first probe was false
\* and its second probe true
FailoverCall(c) ==
  /\ calls[c].alone
  /\ Resolved(c)
  /\ calls[c].first = "false"
  /\ calls[c].second = "true"

\* getProviderName() of the known provider that kind is not
OtherName(kind) == CHOOSE p \in KnownProviders : p # kind

C1_State ==
  \A c \in 1..Len(calls) :
    FailoverCall(c) =>
      /\ calls[c].result # 0
      /\ adapters[calls[c].result].provider
           = OtherName(adapters[calls[c].tried[1]].provider)
      /\ adapters[calls[c].result].probe = "true"
      /\ (c = Len(calls) =>
            GetAIClientResult = [status |-> "ok", client |-> calls[c].result,
                                 error |-> NoError])

C1_Step ==
  /\ calls' # calls => lastGet' = lastGet
  /\ \A c \in 1..Len(calls) :
       (FailoverCall(c) /\ c = Len(calls') /\ lastGet' # lastGet) =>
         /\ lastGet'.status = "ok"
         /\ lastGet'.client = calls[c].result
         /\ lastGet'.client # calls[c].tried[1]
         /\ adapters[lastGet'.client].provider
              # adapters[calls[c].tried[1]].provider

C2_ConnectionError ==
  \A c \in 1..Len(calls) :
    calls[c].pc = "rejected" =>
      /\ calls[c].error.category = "connection"
      /\ {adapters[a].provider : a \in {calls[c].tried[i] : i \in 1..Len(calls[c].tried)}}
           \subseteq calls[c].error.mentions

\* C3: as long as no initAI call has resolved, getAIClient() fails with an
\* Initialization error and hands no client to any caller.
C3_NoClientBeforeReady ==
  ~SomeResolved =>
    /\ GetAIClientResult.status = "error"
    /\ GetAIClientResult.error.category = "initialization"
    /\ lastGet.status # "ok"

\* C4: while an initAI call that follows a successful one is in progress,
\* getAIClient() returns an adapter whose connectivity probe has succeeded.
C4_AtomicReinit ==
  (SomeResolved /\ AnyInProgress) =>
    /\ GetAIClientResult.status = "ok"
    /\ adapters[GetAIClientResult.client].probe = "true"

\* C5: every initAI call eventually settles, whatever the backends do.
C5_InitSettles ==
  \A c \in 1..MaxCalls :
    (c <= Len(calls) /\ InProgress(c)) ~> (c <= Len(calls) /\ ~InProgress(c))

----------------------------------------------------------------------------
(* Claims about complete(), withRetry and withTimeout *)

\* the configuration of the adapter complete() runs on
CConfig == adapters[aiClient].config

\* the adapter was constructed without a retryOptions override
DefaultRetry == "retryOptions" \notin DOMAIN calls[1].config

\* C6: with maxRetries = N an operation that fails on every attempt is
\* invoked exactly N+1 times (4 times with the default N = 3), never more,
\* and what the retry wrapper then surfaces is the failure of that last
\* attempt.
C6_RetryBound ==
  /\ ccall.attempt <= CConfig.retryOptions.maxRetries + 1
  /\ (ccall.pc = "done" /\ ccall.retryError.kind # "") =>
       /\ ccall.attempt = CConfig.retryOptions.maxRetries + 1
       /\ DefaultRetry => ccall.attempt = 4
       /\ ccall.retryError.attempt = ccall.attempt
       /\ ccall.retryError = ccall.lastFailure
       /\ ccall.result.status = "error"

C6_Witness ==
  /\ ccall.pc = "done"
  /\ DefaultRetry
  /\ ccall.attempt = 4
  /\ ccall.seen = {"refused", "timeout"}
  /\ ccall.retryError = [attempt |-> 4, kind |-> "timeout"]

DefaultGaps == <<1000, 2000, 4000>>

\* C7: the pause observed before retry k (k = 0, 1, ...) is
\* min(maxDelayMs, initialDelayMs * 2^k); with the adapter defaults the
\* pauses before attempts 2, 3, 4 are 1000, 2000, 4000 ms; the pauses never
\* decrease and none exceeds maxDelayMs.
C7_Backoff ==
  \A k \in 1..Len(ccall.gaps) :
    /\ ccall.gaps[k] = Min2(CConfig.retryOptions.maxDelayMs,
                            CConfig.retryOptions.initialDelayMs * (2 ^ (k - 1)))
    /\ ccall.gaps[k] <= CConfig.retryOptions.maxDelayMs
    /\ k > 1 => ccall.gaps[k - 1] <= ccall.gaps[k]
    /\ (DefaultRetry /\ k <= 3) => ccall.gaps[k] = DefaultGaps[k]

C7_Witness ==
  /\ Len(ccall.gaps) = 5
  /\ ccall.gaps[3] = 4000
  /\ ccall.gaps[5] = 10000
  /\ CConfig.retryOptions.initialDelayMs = 1000

OnlyHttpErrors == ccall.pc = "done" /\ ccall.seen = {"http_error"}

C8_WitnessLMStudio ==
  /\ OnlyHttpErrors
  /\ ccall.kind = "lmstudio"
  /\ CConfig.retryOptions.maxRetries = 3

\* C9: every attempt of complete() runs under its own timeout window of
\* config.timeout ms that opens when the attempt starts, however much time
\* earlier attempts and pauses took; a timed-out attempt is one failed
\* attempt and is retried like any other failure.
C9_FreshWindow ==
  /\ ccall.pc = "attempt" =>
       /\ ccall.deadline = ccall.start + CConfig.timeout
       /\ ccall.start >= ccall.prevEnd
       /\ now <= ccall.deadline
  /\ ccall.lastFailure.kind = "timeout" =>
       /\ ccall.lastFailure.attempt \in {ccall.attempt - 1, ccall.attempt}
       /\ (ccall.pc = "done" /\ ccall.lastFailure.attempt = ccall.attempt) =>
            ccall.attempt = CConfig.retryOptions.maxRetries + 1
       /\ (ccall.pc = "sleep") =>
            ccall.wake = ccall.prevEnd
                           + Min2(CConfig.retryOptions.maxDelayMs,
                                  CConfig.retryOptions.initialDelayMs
                                    * (2 ^ (ccall.attempt - 1)))

C9_Witness ==
  /\ ccall.pc = "attempt"
  /\ ccall.attempt = 3
  /\ ccall.lastFailure = [attempt |-> 2, kind |-> "timeout"]
  /\ ccall.start > ccall.callStart + 2 * CConfig.timeout
  /\ now = ccall.deadline

C10_State ==
  /\ ccall.pc = "attempt" => now <= ccall.start + CConfig.timeout
  /\ ccall.timedOut =>
       /\ ccall.lastFailure = [attempt |-> ccall.attempt, kind |-> "timeout"]
       /\ ccall.prevEnd = ccall.start + CConfig.timeout

C10_Step ==
  (ccall.timedOut /\ ccall'.attempt = ccall.attempt) =>
    /\ ccall'.timedOut
    /\ ccall'.lastFailure = ccall.lastFailure
    /\ ccall.pc = "done" => ccall'.result = ccall.result

\* C10: a wrapped call whose operation has not settled d ms after its start
\* fails with Timeout at that deadline, and that outcome stands when the
\* abandoned operation settles later.
C10_TimeoutFires == [](C10_State) /\ [][C10_Step]_vars

C10_Witness ==
  /\ ccall.pc = "done"
  /\ ccall.timedOut
  /\ ccall.attempt > 1
  /\ ccall.abandoned = 0
  /\ ccall.seen = {"timeout"}
  /\ ccall.result.status = "error"

----------------------------------------------------------------------------
(* Errors at the adapters' public boundary *)

\* how the body of a non-2xx answer reads: JSON with error.message, or not
\* parseable as JSON
ErrorBodies == {"structured", "unparseable"}

\* OllamaClient.handleErrorResponse: what sendRequest throws on a non-2xx
\* answer, before complete() catches it
OllamaHandleErrorResponse(body) ==
  UserError(IF body = "structured"
            THEN "Ollama API error: <error.message of the body>"
            ELSE "Ollama API error: HTTP error <status>",
            "ai_service", {"ollama"}, "")

\* the messages an error built from the backend's answer can carry
BackendErrorMessages ==
  {OllamaHandleErrorResponse(body).message : body \in ErrorBodies}

\* C11: when the backend answers every completion request with a non-2xx
\* status, the error complete() rejects with has category AI_SERVICE and a
\* message taken from the error body or synthesized from the status code.
C11_AIServiceError ==
  OnlyHttpErrors =>
    /\ ccall.result.status = "error"
    /\ ccall.result.error.category = "ai_service"
    /\ ccall.result.error.message \in BackendErrorMessages

\* an error of the taxonomy: a UserError with a category, whose cause is
\* the original failure
TypedError(error) ==
  /\ error.name = "UserError"
  /\ error.category # ""
  /\ error.cause # ""

\* C12: whatever makes complete() reject (network failure, timeout,
\* malformed body, HTTP error), the rejection is a UserError carrying a
\* category and, as its cause, the original error.
C12_TypedRejection ==
  (ccall.pc = "done" /\ ccall.result.status = "error") =>
    TypedError(ccall.result.error)

----------------------------------------------------------------------------
(* Failover is the orchestrator's business only *)

C13_State ==
  (ccall.pc = "done" /\ ccall.result.status = "error") =>
    /\ ccall.result.error # NoError
    /\ ccall.targets = {adapters[aiClient].config.apiBaseUrl}
    /\ Len(adapters) = 1

C13_Step ==
  (ccall' # ccall) =>
    /\ aiClient' = aiClient
    /\ currentProvider' = currentProvider
    /\ adapters' = adapters

----------------------------------------------------------------------------
(* getModels() and testConnection() called on the client *)

MaxProbeOps == 2       \* getModels / testConnection invocations per behaviour

ProbeOpNames == {"getModels", "testConnection"}

\* what getModels() throws on the LM Studio adapter, whatever failed
GetModelsFailure(cause) ==
  UserError("Failed to get available models", "connection", {"lmstudio"},
            cause)

\* LMStudioClient.getModels, given the answer to GET /v1/models or
\* "timeout" when the withTimeout timer fired first
LMStudioGetModels(answer) ==
  IF answer \in {"ok", "ok_empty"}
  THEN [pc |-> "resolved",
        value |-> IF answer = "ok" THEN "some" ELSE "empty", error |-> NoError]
  ELSE [pc |-> "rejected", value |-> "", error |-> GetModelsFailure(answer)]

\* getModels() of either adapter
GetModels(kind, answer) ==
  IF kind = "lmstudio" THEN LMStudioGetModels(answer)
  ELSE [pc |-> "resolved",
        value |-> IF OllamaGetModels(answer) = "some" THEN "some" ELSE "empty",
        error |-> NoError]

\* the HTTP answers a testConnection() consumes: the Ollama adapter sends
\* its second request only after an empty model list
ProbeAnswersUsed(kind, answer1, answer2) ==
  IF kind = "ollama" /\ OllamaGetModels(answer1) # "some"
  THEN <<answer1, answer2>> ELSE <<answer1>>

\* a caller invokes getModels() or testConnection() on the client
StartProbeOp(op) ==
  /\ Len(probeOps) < MaxProbeOps
  /\ aiClient # 0
  /\ probeOps' = Append(probeOps,
                        [op |-> op, kind |-> adapters[aiClient].provider,
                         pc |-> "pending", answers |-> <<>>,
                         value |-> "", error |-> NoError])
  /\ UNCHANGED <<aiClient, currentProvider, adapters, calls, lastGet, now, ccall>>
  /\ UNCHANGED <<completions, cfgVars>>
  /\ UNCHANGED <<lastRequest, cli, auth>>

\* the backend answers the request of getModels() number i
GetModelsSettles(i, answer) ==
  /\ i \in 1..Len(probeOps)
  /\ probeOps[i].op = "getModels"
  /\ probeOps[i].pc = "pending"
  /\ LET r == GetModels(probeOps[i].kind, answer)
     IN probeOps' = [probeOps EXCEPT ![i] =
                       [@ EXCEPT !.pc = r.pc, !.answers = <<answer>>,
                                 !.value = r.value, !.error = r.error]]
  /\ UNCHANGED <<aiClient, currentProvider, adapters, calls, lastGet, now, ccall>>
  /\ UNCHANGED <<completions, cfgVars>>
  /\ UNCHANGED <<lastRequest, cli, auth>>

\* the backend answers the request(s) of testConnection() number i
TestConnectionSettles(i, answer1, answer2) ==
  /\ i \in 1..Len(probeOps)
  /\ probeOps[i].op = "testConnection"
  /\ probeOps[i].pc = "pending"
  /\ LET kind == probeOps[i].kind
     IN probeOps' = [probeOps EXCEPT ![i] =
                       [@ EXCEPT
                          !.pc = "resolved",
                          !.answers = ProbeAnswersUsed(kind, answer1, answer2),
                          !.value = IF TestConnection(kind, answer1, answer2)
                                    THEN "true" ELSE "false"]]
  /\ UNCHANGED <<aiClient, currentProvider, adapters, calls, lastGet, now, ccall>>
  /\ UNCHANGED <<completions, cfgVars>>
  /\ UNCHANGED <<lastRequest, cli, auth>>

\* the withTimeout timer of invocation i fires before the backend answered
ProbeOpTimeout(i) ==
  /\ i \in 1..Len(probeOps)
  /\ probeOps[i].pc = "pending"
  /\ ProbeHasTimeout(probeOps[i].kind)
  /\ LET r == IF probeOps[i].op = "getModels"
              THEN GetModels(probeOps[i].kind, "timeout")
              ELSE [pc |-> "resolved", value |-> "false", error |-> NoError]
     IN probeOps' = [probeOps EXCEPT ![i] =
                       [@ EXCEPT !.pc = r.pc, !.answers = <<"timeout">>,
                                 !.value = r.value, !.error = r.error]]
  /\ UNCHANGED <<aiClient, currentProvider, adapters, calls, lastGet, now, ccall>>
  /\ UNCHANGED <<completions, cfgVars>>
  /\ UNCHANGED <<lastRequest, cli, auth>>

ProbeConfigs == {[provider |-> p] : p \in KnownProviders}

InitProbe ==
  /\ \E config \in ProbeConfigs : ReadyState(config)
  /\ lastGet = [status |-> "none", client |-> 0, error |-> NoError]
  /\ now = 0
  /\ ccall = CIdle
  /\ probeOps = <<>>
  /\ completions = <<>>
  /\ NoClients
  /\ lastRequest = NoRequest
  /\ cli = CliOff
  /\ auth = AuthOff

NextProbe ==
  \/ \E op \in ProbeOpNames : StartProbeOp(op)
  \/ \E i \in 1..MaxProbeOps, answer \in ProbeAnswers :
       GetModelsSettles(i, answer)
  \/ \E i \in 1..MaxProbeOps, answer1, answer2 \in ProbeAnswers :
       TestConnectionSettles(i, answer1, answer2)
  \/ \E i \in 1..MaxProbeOps : ProbeOpTimeout(i)

SpecProbe == InitProbe /\ [][NextProbe]_vars

\* the failures a backend can answer a probe request with
ProbeFailures == {"http_error", "refused", "malformed", "timeout"}

Last(seq) == seq[Len(seq)]

\* C14: testConnection() never rejects; it resolves to false when the
\* backend's answer is a refused connection, a non-2xx status, a malformed
\* body or none within the timeout, and to true only if the backend
\* answered with a success status.
C14_ProbeNeverThrows ==
  \A i \in 1..Len(probeOps) :
    (probeOps[i].op = "testConnection" /\ probeOps[i].pc # "pending") =>
      /\ probeOps[i].pc = "resolved"
      /\ Last(probeOps[i].answers) \in ProbeFailures => probeOps[i].value = "false"
      /\ probeOps[i].value = "true" => ResponseOk(Last(probeOps[i].answers))

\* C15: getModels() rejects with a Connection error when the backend is
\* unreachable or answers the model list request with a failure; it never
\* resolves to an empty list in that case.
C15_GetModelsRejects ==
  \A i \in 1..Len(probeOps) :
    (/\ probeOps[i].op = "getModels"
     /\ probeOps[i].pc # "pending"
     /\ Last(probeOps[i].answers) \in {"refused", "http_error"}) =>
      /\ probeOps[i].pc = "rejected"
      /\ probeOps[i].error.category = "connection"

----------------------------------------------------------------------------
(* complete() and completeStream(): what the adapters hand back *)

MaxCompletions == 2    \* complete / completeStream invocations per behaviour
MaxClock == 1          \* Date.now() runs from 0 to MaxClock

\* reading a property that the object does not have
Undefined == "<undefined>"

Has(obj, key) == key \in DOMAIN obj

\* obj.key
Get(obj, key) == IF Has(obj, key) THEN obj[key] ELSE Undefined

\* obj.key || 0, for a numeric property
NumOrZero(obj, key) == IF Has(obj, key) THEN obj[key] ELSE 0

\* a string that counts as true in a condition
Truthy(str) == str \notin {"", Undefined}

\* obj.key || default, for a string property
StrOr(obj, key, default) ==
  IF Truthy(Get(obj, key)) THEN obj[key] ELSE default

\* bodies of a 200 answer of POST /api/generate
OllamaPayloads ==
  {[model |-> "devstral:24b", response |-> "hi",
    prompt_eval_count |-> 5, eval_count |-> 2],
   [model |-> "devstral:24b", response |-> "hi"],
   [model |-> "devstral:24b", response |-> "",
    prompt_eval_count |-> 5, eval_count |-> 0],
   [model |-> "devstral:24b", prompt_eval_count |-> 5]}

\* bodies of a 200 answer of POST /v1/chat/completions
LMStudioPayloads ==
  {[id |-> "chatcmpl-1", model |-> "qwen",
    usage |-> [prompt_tokens |-> 5, completion_tokens |-> 2],
    choices |-> <<[message |-> [content |-> "hi"],
                   finish_reason |-> "length"]>>],
   [choices |-> <<[message |-> [content |-> "hi"]]>>],
   [id |-> "chatcmpl-1", model |-> "qwen",
    usage |-> [prompt_tokens |-> 5, completion_tokens |-> 0],
    choices |-> <<[message |-> [content |-> ""], finish_reason |-> "stop"]>>],
   [id |-> "chatcmpl-1", model |-> "qwen", choices |-> <<>>]}

Payloads(kind) ==
  IF kind = "lmstudio" THEN LMStudioPayloads ELSE OllamaPayloads

OllamaResponse_Swapped(payload, t) ==
  [id |-> ToString(t),
   model |-> Get(payload, "model"),
   usage |-> [input_tokens |-> NumOrZero(payload, "eval_count"),
              output_tokens |-> NumOrZero(payload, "prompt_eval_count")],
   content |-> <<[type |-> "text", text |-> Get(payload, "response")]>>,
   stop_reason |-> Undefined]

\* OllamaClient.complete: the CompletionResponse built from the body of
\* the answer at clock reading t
OllamaResponse(payload, t) ==
  [id |-> ToString(t),
   model |-> Get(payload, "model"),
   usage |-> [input_tokens |-> NumOrZero(payload, "prompt_eval_count"),
              output_tokens |-> NumOrZero(payload, "eval_count")],
   content |-> <<[type |-> "text", text |-> Get(payload, "response")]>>,
   stop_reason |-> Undefined]

\* data.usage of an LM Studio body, {} when absent
Usage(payload) ==
  IF Has(payload, "usage") THEN payload.usage ELSE [absent |-> TRUE]

\* data.choices?.[0]
FirstChoice(payload) ==
  IF Has(payload, "choices") /\ Len(payload.choices) > 0
  THEN payload.choices[1] ELSE [absent |-> TRUE]

\* data.choices?.[0]?.message?.content
FirstContent(payload) ==
  IF Has(FirstChoice(payload), "message")
  THEN Get(FirstChoice(payload).message, "content") ELSE Undefined

\* LMStudioClient.complete: the CompletionResponse built from the body of
\* the answer at clock reading t, on an adapter whose this.model is model
LMStudioResponse(payload, model, t) ==
  [id |-> StrOr(payload, "id", "lmstudio_" \o ToString(t)),
   model |-> StrOr(payload, "model", model),
   usage |-> [input_tokens |-> NumOrZero(Usage(payload), "prompt_tokens"),
              output_tokens |-> NumOrZero(Usage(payload), "completion_tokens")],
   content |-> IF Truthy(FirstContent(payload))
               THEN <<[type |-> "text", text |-> FirstContent(payload)]>>
               ELSE <<>>,
   stop_reason |-> StrOr(FirstChoice(payload), "finish_reason", "stop")]

\* complete() of adapter a, once its request was answered with payload
Response(a, payload, t) ==
  IF a.provider = "lmstudio"
  THEN LMStudioResponse(payload, a.model, t)
  ELSE OllamaResponse(payload, t)

\* the answers that make complete() reject
CompleteFailures == CompleteAnswers \ {"ok"}

\* the error complete() rejects with when the backend's last answer is
\* failure
CompleteError(kind, failure) ==
  IF AttemptOutcome(kind, failure) = "resolved"
  THEN CompleteResolution(kind, failure).error
  ELSE CompleteRejection(kind, failure)

StreamRethrow_Wrapped(error) ==
  UserError("Streaming failed", "ai_service", {}, error.category)

\* completeStream's catch block: the error of complete() is logged and
\* thrown again as it is
StreamRethrow(error) == error

StreamYieldType_Same(n) == "message_start"

\* the tag of the n-th event completeStream yields
StreamYieldType(n) == IF n = 1 THEN "message_start" ELSE "message_stop"

\* the event completeStream yields for a completed response
StreamEvent(type, response) ==
  [type |-> type,
   message |-> [id |-> response.id, model |-> response.model,
                content |-> response.content,
                stop_reason |-> response.stop_reason]]

NoPayload == [absent |-> TRUE]

NoResponse ==
  [id |-> "", model |-> "",
   usage |-> [input_tokens |-> 0, output_tokens |-> 0],
   content |-> <<>>, stop_reason |-> ""]

CompletionVias == {"complete", "completeStream"}

\* a caller invokes complete(options), or completeStream(options) and pulls
\* its first event, on the client: the request is on its way
StartCompletion(via) ==
  /\ Len(completions) < MaxCompletions
  /\ aiClient # 0
  /\ completions' = Append(completions,
                           [via |-> via, client |-> aiClient, pc |-> "pending",
                            payload |-> NoPayload, response |-> NoResponse,
                            failure |-> "", error |-> NoError,
                            events |-> <<>>])
  /\ UNCHANGED <<aiClient, currentProvider, adapters, calls, lastGet, now, ccall>>
  /\ UNCHANGED <<probeOps, cfgVars>>
  /\ UNCHANGED <<lastRequest, cli, auth>>

\* the request of invocation i is answered with a 200 and payload:
\* complete() returns the response; a stream yields its first event
CompletionSucceeds(i, payload) ==
  /\ i \in 1..Len(completions)
  /\ completions[i].pc = "pending"
  /\ payload \in Payloads(adapters[completions[i].client].provider)
  /\ LET response == Response(adapters[completions[i].client], payload, now)
     IN completions' =
          [completions EXCEPT ![i] =
             IF @.via = "complete"
             THEN [@ EXCEPT !.pc = "resolved", !.payload = payload,
                            !.response = response]
             ELSE [@ EXCEPT !.pc = "started", !.payload = payload,
                            !.response = response,
                            !.events = <<StreamEvent(StreamYieldType(1),
                                                     response)>>]]
  /\ UNCHANGED <<aiClient, currentProvider, adapters, calls, lastGet, now, ccall>>
  /\ UNCHANGED <<probeOps, cfgVars>>
  /\ UNCHANGED <<lastRequest, cli, auth>>

\* complete() of invocation i gives up on failure: complete() rejects; a
\* stream throws into its consumer without having yielded
CompletionFails(i, failure) ==
  /\ i \in 1..Len(completions)
  /\ completions[i].pc = "pending"
  /\ completions' =
       [completions EXCEPT ![i] =
          LET error == CompleteError(
                         adapters[completions[i].client].provider, failure)
          IN [@ EXCEPT !.pc = IF completions[i].via = "complete"
                              THEN "rejected" ELSE "threw",
                       !.failure = failure,
                       !.error = IF completions[i].via = "complete"
                                 THEN error ELSE StreamRethrow(error)]]
  /\ UNCHANGED <<aiClient, currentProvider, adapters, calls, lastGet, now, ccall>>
  /\ UNCHANGED <<probeOps, cfgVars>>
  /\ UNCHANGED <<lastRequest, cli, auth>>

\* the consumer of stream i pulls the next event: the second yield, then
\* the end of the generator
StreamNext(i) ==
  /\ i \in 1..Len(completions)
  /\ completions[i].pc \in {"started", "stopped"}
  /\ completions' =
       [completions EXCEPT ![i] =
          IF @.pc = "started"
          THEN [@ EXCEPT !.pc = "stopped",
                         !.events = Append(@, StreamEvent(StreamYieldType(2),
                                                          completions[i].response))]
          ELSE [@ EXCEPT !.pc = "returned"]]
  /\ UNCHANGED <<aiClient, currentProvider, adapters, calls, lastGet, now, ccall>>
  /\ UNCHANGED <<probeOps, cfgVars>>
  /\ UNCHANGED <<lastRequest, cli, auth>>

\* a millisecond passes
Tick ==
  /\ now < MaxClock
  /\ now' = now + 1
  /\ UNCHANGED <<aiClient, currentProvider, adapters, calls, lastGet, ccall>>
  /\ UNCHANGED opVars

ResponseConfigs == {[provider |-> p] : p \in KnownProviders}

InitResponse ==
  /\ \E config \in ResponseConfigs : ReadyState(config)
  /\ lastGet = [status |-> "none", client |-> 0, error |-> NoError]
  /\ now = 0
  /\ ccall = CIdle
  /\ probeOps = <<>>
  /\ completions = <<>>
  /\ NoClients
  /\ lastRequest = NoRequest
  /\ cli = CliOff
  /\ auth = AuthOff

NextResponse ==
  \/ \E via \in CompletionVias : StartCompletion(via)
  \/ \E i \in 1..MaxCompletions, payload \in OllamaPayloads \cup LMStudioPayloads :
       CompletionSucceeds(i, payload)
  \/ \E i \in 1..MaxCompletions, failure \in CompleteFailures :
       CompletionFails(i, failure)
  \/ \E i \in 1..MaxCompletions : StreamNext(i)
  \/ Tick

SpecResponse == InitResponse /\ [][NextResponse]_vars

\* the invocations that handed a CompletionResponse to their caller
Returned == {i \in 1..Len(completions) : completions[i].pc = "resolved"}

KindOf(i) == adapters[completions[i].client].provider

\* C16: complete() of the Ollama adapter maps a success body to model =
\* model, usage.input_tokens = prompt_eval_count, usage.output_tokens =
\* eval_count (0 for an absent count) and content = <<text: response>>;
\* complete() of the LM Studio adapter maps usage.prompt_tokens,
\* usage.completion_tokens and choices[0].message.content the same way.
C16_Normalized ==
  \A i \in Returned :
    LET p == completions[i].payload
        r == completions[i].response
    IN IF KindOf(i) = "ollama"
       THEN /\ Has(p, "model") => r.model = p.model
            /\ r.usage.input_tokens =
                 IF Has(p, "prompt_eval_count") THEN p.prompt_eval_count ELSE 0
            /\ r.usage.output_tokens =
                 IF Has(p, "eval_count") THEN p.eval_count ELSE 0
            /\ Has(p, "response") =>
                 r.content = <<[type |-> "text", text |-> p.response]>>
       ELSE /\ Has(p, "usage") =>
                 /\ r.usage.input_tokens = p.usage.prompt_tokens
                 /\ r.usage.output_tokens = p.usage.completion_tokens
            /\ Truthy(FirstContent(p)) =>
                 r.content = <<[type |-> "text",
                                text |-> p.choices[1].message.content]>>
            /\ Has(p, "model") => r.model = p.model

C16_Witness ==
  \E i, j \in Returned :
    /\ KindOf(i) = "ollama"
    /\ completions[i].payload =
         [model |-> "devstral:24b", response |-> "hi",
          prompt_eval_count |-> 5, eval_count |-> 2]
    /\ completions[i].response.usage = [input_tokens |-> 5, output_tokens |-> 2]
    /\ completions[i].response.content = <<[type |-> "text", text |-> "hi"]>>
    /\ completions[j].payload = [model |-> "devstral:24b", response |-> "hi"]
    /\ completions[j].response.usage = [input_tokens |-> 0, output_tokens |-> 0]

\* C17: the content of every CompletionResponse is a sequence, empty when
\* the backend produced no text, and none of its entries has an empty or
\* undefined text.
C17_ContentNeverBlank ==
  \A i \in Returned :
    \A n \in 1..Len(completions[i].response.content) :
      Truthy(completions[i].response.content[n].text)

\* C18: any two CompletionResponses returned in one process carry different
\* ids.
C18_UniqueIds ==
  \A i, j \in Returned :
    i # j => completions[i].response.id # completions[j].response.id

\* the invocations made through completeStream
Streams == {i \in 1..Len(completions) : completions[i].via = "completeStream"}

\* the events of a successful stream, in order
Framing(response) ==
  <<StreamEvent("message_start", response),
    StreamEvent("message_stop", response)>>

IsPrefix(s, t) == Len(s) <= Len(t) /\ \A n \in 1..Len(s) : s[n] = t[n]

C19_State ==
  \A i \in Streams :
    LET c == completions[i]
    IN /\ IsPrefix(c.events, Framing(c.response))
       /\ c.pc \in {"stopped", "returned"} => c.events = Framing(c.response)
       /\ c.pc = "started" => Len(c.events) = 1
       /\ c.pc \in {"pending", "threw"} => c.events = <<>>

C19_Step ==
  \A i \in Streams :
    /\ completions[i].pc = "returned" => completions'[i] = completions[i]
    /\ completions[i].pc = "stopped" =>
         completions'[i].events = completions[i].events

\* C19: a completeStream invocation whose completion succeeds yields one
\* message_start, then one message_stop, then ends without yielding
\* anything more; both events carry the id, model and content of the
\* completed response.
C19_StreamFraming == [](C19_State) /\ [][C19_Step]_vars

C19_Witness ==
  \E i \in Streams :
    /\ completions[i].pc = "returned"
    /\ Len(completions[i].events) = 2
    /\ completions[i].events[1].type = "message_start"
    /\ completions[i].events[2].type = "message_stop"
    /\ completions[i].events[2].message.content # <<>>

----------------------------------------------------------------------------
(* getConfig(): configuration objects and who shares them *)

MaxClients == 2        \* adapter instances constructed per behaviour
MaxGot == 2            \* getConfig() results handed out per behaviour

\* DEFAULT_CONFIG of an adapter module, its nested object by reference
DefaultConfigRef(kind) ==
  [DefaultConfig(kind) EXCEPT !.retryOptions = DefaultRetryRef(kind)]

\* a retryOptions object a caller passes to the constructor
CallerRetryOptions ==
  [maxRetries |-> 1, initialDelayMs |-> 1000, maxDelayMs |-> 10000]

\* { ...obj }: a new object with the same property values; a property that
\* holds a reference keeps pointing at the same nested object
SpreadCopy(obj) == [k \in DOMAIN obj |-> obj[k]]

\* the instance a constructor builds from config (history fields: last is
\* the latest operation that wrote to the instance, setTo the argument of
\* the latest setModel on it, "" before the first)
ClientInstance(kind, config) ==
  LET merged == ShallowMerge(DefaultConfigRef(kind), config)
  IN [kind |-> kind, config |-> merged,
      model |-> InitialModel(kind, merged),
      last |-> [op |-> "new"], setTo |-> ""]

\* new OllamaClient(config) / new LMStudioClient(config), with config = {}
\* or config = {retryOptions: <a new object>}
NewClient(kind, own) ==
  /\ Len(clients) < MaxClients
  /\ LET ref == Len(heap) + 1
         config == IF own THEN [retryOptions |-> ref] ELSE <<>>
     IN /\ heap' = IF own THEN Append(heap, CallerRetryOptions) ELSE heap
        /\ clients' = Append(clients, ClientInstance(kind, config))
  /\ UNCHANGED got
  /\ UNCHANGED <<aiClient, currentProvider, adapters, calls, lastGet, now, ccall>>
  /\ UNCHANGED <<probeOps, completions>>
  /\ UNCHANGED <<lastRequest, cli, auth>>

\* a caller runs getConfig() on instance i and keeps the result
GetConfig(i) ==
  /\ i \in 1..Len(clients)
  /\ Len(got) < MaxGot
  /\ got' = Append(got, [client |-> i, obj |-> SpreadCopy(clients[i].config)])
  /\ UNCHANGED <<heap, clients>>
  /\ UNCHANGED <<aiClient, currentProvider, adapters, calls, lastGet, now, ccall>>
  /\ UNCHANGED <<probeOps, completions>>
  /\ UNCHANGED <<lastRequest, cli, auth>>

\* the properties of a returned object a caller assigns to
WrittenFields == {"timeout", "defaultModel"}

\* the value a caller assigns to such a property
WrittenValue(field) == IF field = "timeout" THEN 1 ELSE "other"

\* a caller assigns got[g].obj.<field> = <value>
MutateField(g, field) ==
  /\ g \in 1..Len(got)
  /\ got' = [got EXCEPT ![g].obj[field] = WrittenValue(field)]
  /\ UNCHANGED <<heap, clients>>
  /\ UNCHANGED <<aiClient, currentProvider, adapters, calls, lastGet, now, ccall>>
  /\ UNCHANGED <<probeOps, completions>>
  /\ UNCHANGED <<lastRequest, cli, auth>>

\* a caller assigns got[g].obj.retryOptions.maxRetries = 0
MutateRetryOptions(g) ==
  /\ g \in 1..Len(got)
  /\ heap' = [heap EXCEPT ![got[g].obj.retryOptions].maxRetries = 0]
  /\ UNCHANGED <<clients, got>>
  /\ UNCHANGED <<aiClient, currentProvider, adapters, calls, lastGet, now, ccall>>
  /\ UNCHANGED <<probeOps, completions>>
  /\ UNCHANGED <<lastRequest, cli, auth>>

InitConfig ==
  /\ aiClient = 0
  /\ currentProvider = "ollama"
  /\ adapters = <<>>
  /\ calls = <<>>
  /\ lastGet = [status |-> "none", client |-> 0, error |-> NoError]
  /\ now = 0
  /\ ccall = CIdle
  /\ probeOps = <<>>
  /\ completions = <<>>
  /\ NoClients
  /\ lastRequest = NoRequest
  /\ cli = CliOff
  /\ auth = AuthOff

NextConfig ==
  \/ \E kind \in KnownProviders, own \in BOOLEAN : NewClient(kind, own)
  \/ \E i \in 1..MaxClients : GetConfig(i)
  \/ \E g \in 1..MaxGot, field \in WrittenFields : MutateField(g, field)
  \/ \E g \in 1..MaxGot : MutateRetryOptions(g)

SpecConfig == InitConfig /\ [][NextConfig]_vars

\* the configuration instance i works with, nested object included
ConfigView(i) == [clients[i].config EXCEPT !.retryOptions = heap[@]]

\* the retryOptions a new instance of kind starts with
DefaultsView(kind) == heap[DefaultRetryRef(kind)]

\* a step in which a caller writes into an object getConfig() returned
Mutation ==
  /\ clients' = clients
  /\ Len(got') = Len(got)
  /\ <<heap, got>>' # <<heap, got>>

C20_Step ==
  Mutation =>
    /\ \A i \in 1..Len(clients) : ConfigView(i)' = ConfigView(i)
    /\ \A kind \in KnownProviders : DefaultsView(kind)' = DefaultsView(kind)

\* C20: writing into an object returned by getConfig(), nested retryOptions
\* included, changes neither the configuration any instance works with
\* (hence no later getConfig() result) nor the defaults of new instances.
C20_ConfigIsolation == [][C20_Step]_vars

\* ---------------------------------------------------------------------------
\* The request complete() builds from CompletionOptions, and the local
\* mutators setModel / updateConfig
\* ---------------------------------------------------------------------------

\* longest message list passed to complete()
MaxMessages == 2

\* texts are sequences of characters
Newline == <<"\n">>

\* the messages callers pass
MessagePool ==
  {[role |-> "user", content |-> <<"a">>],
   [role |-> "assistant", content |-> <<"b", "c">>]}

MessageLists == UNION {[1..n -> MessagePool] : n \in 0..MaxMessages}

\* CompletionOptions: messages, and optionally model and system
CompletionOptions ==
  {[messages |-> ms] : ms \in MessageLists}
    \cup {[messages |-> ms, model |-> "m2"] : ms \in MessageLists}
    \cup {[messages |-> ms, system |-> <<"s">>] : ms \in MessageLists}
    \cup {[messages |-> ms, system |-> <<>>] :
            ms \in {l \in MessageLists : Len(l) <= 1}}

\* messages.map(m => m.content)
Contents_Reversed(messages) ==
  [k \in 1..Len(messages) |-> messages[Len(messages) + 1 - k].content]

Contents(messages) == [k \in 1..Len(messages) |-> messages[k].content]

\* Array.prototype.join
RECURSIVE Join(_, _)
Join(strs, sep) ==
  IF strs = <<>> THEN <<>>
  ELSE IF Len(strs) = 1 THEN strs[1]
  ELSE strs[1] \o sep \o Join(Tail(strs), sep)

\* system ? [{ role: 'system', content: system }, ...options.messages]
\*        : options.messages          (system defaults to '')
LMStudioMessages(options) ==
  IF Has(options, "system") /\ options.system # <<>>
  THEN <<[role |-> "system", content |-> options.system]>> \o options.messages
  ELSE options.messages

\* what complete(options) on inst sends: the address, the model named, the
\* body's prompt or messages, and the timeout and retry options it runs under
OllamaRequest(inst, options, h) ==
  [base |-> RequestUrl(inst.config),
   path |-> "/api/generate",
   model |-> StrOr(options, "model", inst.config.defaultModel),
   prompt |-> Join(Contents(options.messages), Newline),
   timeoutMs |-> inst.config.timeout,
   retry |-> h[inst.config.retryOptions]]

LMStudioRequest(inst, options, h) ==
  [base |-> RequestUrl(inst.config),
   path |-> "/v1/chat/completions",
   model |-> inst.model,
   messages |-> LMStudioMessages(options),
   timeoutMs |-> inst.config.timeout,
   retry |-> h[inst.config.retryOptions]]

CompletionRequest(inst, options, h) ==
  IF inst.kind = "lmstudio" THEN LMStudioRequest(inst, options, h)
  ELSE OllamaRequest(inst, options, h)

\* the models callers pass to setModel
SetModels == {"m1", "m3"}

\* the retryOptions object a caller holds and passes to updateConfig
CallerRef == Len(DefaultHeap) + 1

\* the partial configurations callers pass to updateConfig
UpdatePartials ==
  {[timeout |-> 50], [defaultModel |-> "other"],
   [apiBaseUrl |-> "http://remote"], [retryOptions |-> CallerRef],
   [timeout |-> 60000, apiBaseUrl |-> "http://remote"]}

\* instance i runs setModel(model)
SetModel(i, model) ==
  /\ i \in 1..Len(clients)
  /\ clients' = [clients EXCEPT
       ![i] = [WithModel(@.kind, @, model) EXCEPT
                 !.last = [op |-> "setModel", model |-> model],
                 !.setTo = model]]
  /\ UNCHANGED <<heap, got, lastRequest, cli, auth>>
  /\ UNCHANGED <<aiClient, currentProvider, adapters, calls, lastGet, now, ccall>>
  /\ UNCHANGED <<probeOps, completions>>

\* instance i runs updateConfig(partial)
UpdateConfig(i, partial) ==
  /\ i \in 1..Len(clients)
  /\ clients' = [clients EXCEPT
       ![i] = [WithConfig(@, partial) EXCEPT
                 !.last = [op |-> "updateConfig", partial |-> partial]]]
  /\ UNCHANGED <<heap, got, lastRequest, cli, auth>>
  /\ UNCHANGED <<aiClient, currentProvider, adapters, calls, lastGet, now, ccall>>
  /\ UNCHANGED <<probeOps, completions>>

\* instance i runs complete(options) up to the sending of the request
SendRequest(i, options) ==
  /\ i \in 1..Len(clients)
  /\ lastRequest' = [client |-> i, options |-> options,
                     request |-> CompletionRequest(clients[i], options, heap)]
  /\ UNCHANGED <<heap, clients, got, cli, auth>>
  /\ UNCHANGED <<aiClient, currentProvider, adapters, calls, lastGet, now, ccall>>
  /\ UNCHANGED <<probeOps, completions>>

\* one adapter constructed without arguments; a caller holds a retryOptions
\* object of its own
InitRequest ==
  /\ aiClient = 0
  /\ currentProvider = "ollama"
  /\ adapters = <<>>
  /\ calls = <<>>
  /\ lastGet = [status |-> "none", client |-> 0, error |-> NoError]
  /\ now = 0
  /\ ccall = CIdle
  /\ probeOps = <<>>
  /\ completions = <<>>
  /\ heap = Append(DefaultHeap, CallerRetryOptions)
  /\ \E kind \in KnownProviders : clients = <<ClientInstance(kind, <<>>)>>
  /\ got = <<>>
  /\ lastRequest = NoRequest
  /\ cli = CliOff
  /\ auth = AuthOff

NextRequest ==
  \/ \E m \in SetModels : SetModel(1, m)
  \/ \E partial \in UpdatePartials : UpdateConfig(1, partial)
  \/ \E options \in CompletionOptions : SendRequest(1, options)

SpecRequest == InitRequest /\ [][NextRequest]_vars

\* a step in which instance i ran updateConfig(clients'[i].last.partial)
UpdateStep(i) ==
  /\ clients'[i] # clients[i]
  /\ clients'[i].last.op = "updateConfig"

\* a step in which a request was sent
RequestSent == lastRequest' # lastRequest

C21_Frame ==
  \A i \in 1..Len(clients) :
    UpdateStep(i) =>
      LET partial == clients'[i].last.partial
      IN \A k \in DOMAIN clients[i].config :
           clients'[i].config[k] =
             IF k \in DOMAIN partial THEN partial[k] ELSE clients[i].config[k]

C21_Used ==
  RequestSent =>
    LET sent == lastRequest'
        inst == clients[sent.client]
    IN inst.last.op = "updateConfig" =>
         LET partial == inst.last.partial
         IN /\ Has(partial, "apiBaseUrl") => sent.request.base = partial.apiBaseUrl
            /\ Has(partial, "timeout") => sent.request.timeoutMs = partial.timeout
            /\ Has(partial, "retryOptions") =>
                 sent.request.retry = heap[partial.retryOptions]
            /\ Has(partial, "defaultModel") /\ ~Has(sent.options, "model") =>
                 sent.request.model = partial.defaultModel

\* C21: updateConfig(partial) gives exactly the keys of partial their new
\* values and leaves every other key of the configuration as it was, and a
\* completion started after it is sent to the new base URL, under the new
\* timeout and retry options, and names the new default model.
C21_UpdateConfig == [][C21_Frame /\ C21_Used]_vars

\* a step in which instance i ran setModel(clients'[i].last.model)
SetModelStep(i) ==
  /\ clients'[i] # clients[i]
  /\ clients'[i].last.op = "setModel"

\* a step in which instance i ran updateConfig with a defaultModel key
UpdateModelStep(i) ==
  /\ UpdateStep(i)
  /\ Has(clients'[i].last.partial, "defaultModel")

\* what getModel() on instance i returns
CurrentModel(i) == GetModel(clients[i].kind, clients[i])

C22_NoRequest ==
  \A i \in 1..Len(clients) : SetModelStep(i) => lastRequest' = lastRequest

C22_SetSticks ==
  \A i \in 1..Len(clients) :
    clients[i].setTo # "" => CurrentModel(i) = clients[i].setTo

C22_SetNamed ==
  RequestSent =>
    LET sent == lastRequest'
    IN clients[sent.client].setTo # "" /\ ~Has(sent.options, "model") =>
         sent.request.model = clients[sent.client].setTo

\* C22 as stated: setModel(m) sends nothing, and from then until the next
\* setModel getModel() returns m and a complete() without options.model
\* names m.
C22_UntilNextSetModel ==
  /\ [](C22_SetSticks)
  /\ [][C22_NoRequest /\ C22_SetNamed]_vars

C22_JustSet ==
  \A i \in 1..Len(clients) :
    clients[i].last.op = "setModel" => CurrentModel(i) = clients[i].last.model

C22_ModelWriters ==
  \A i \in 1..Len(clients) :
    CurrentModel(i)' # CurrentModel(i) => SetModelStep(i) \/ UpdateModelStep(i)

C22_CurrentNamed ==
  RequestSent =>
    LET sent == lastRequest'
    IN ~Has(sent.options, "model") =>
         sent.request.model = CurrentModel(sent.client)

\* C22: setModel(m) sends nothing; getModel() returns m right after it and
\* keeps its value through every step that is neither a setModel nor an
\* updateConfig carrying defaultModel; a complete() without options.model
\* names the model getModel() returns.
C22_SetModelLocal ==
  /\ [](C22_JustSet)
  /\ [][C22_NoRequest /\ C22_ModelWriters /\ C22_CurrentNamed]_vars

\* a request without options.model sent after setModel, naming the model set
C22_Witness ==
  /\ lastRequest.client # 0
  /\ ~Has(lastRequest.options, "model")
  /\ clients[lastRequest.client].last.op = "setModel"
  /\ lastRequest.request.model = clients[lastRequest.client].last.model

\* the adapter class of the instance that sent the latest request
SenderKind == clients[lastRequest.client].kind

\* C23: a request sent by complete() with options.model given names that
\* model, on both adapters.
C23_OptionsModel ==
  lastRequest.client # 0 /\ Has(lastRequest.options, "model") =>
    lastRequest.request.model = lastRequest.options.model

C24_Ahead ==
  LET options == lastRequest.options
      request == lastRequest.request
  IN IF SenderKind = "lmstudio"
     THEN /\ Len(request.messages) = Len(options.messages) + 1
          /\ request.messages[1] = [role |-> "system", content |-> options.system]
          /\ Tail(request.messages) = options.messages
     ELSE /\ IsPrefix(options.system, request.prompt)
          /\ Len(request.prompt) > Len(options.system)
               => request.prompt[Len(options.system) + 1] = "\n"

\* C24: a request sent by complete() with a non-empty options.system carries
\* that text ahead of the messages: as the first message, of role system, on
\* LM Studio, and at the start of the prompt on Ollama.
C24_SystemFirst ==
  /\ lastRequest.client # 0
  /\ Has(lastRequest.options, "system")
  /\ lastRequest.options.system # <<>>
  => C24_Ahead

\* where the content of message k starts in a text that holds the contents
\* of ms, each followed by one separating character
RECURSIVE Offset(_, _)
Offset(ms, k) ==
  IF k = 1 THEN 0 ELSE Offset(ms, k - 1) + Len(ms[k - 1].content) + 1

C25_Prompt ==
  LET ms == lastRequest.options.messages
      prompt == lastRequest.request.prompt
      n == Len(ms)
  IN /\ Len(prompt) = IF n = 0 THEN 0 ELSE Offset(ms, n) + Len(ms[n].content)
     /\ \A k \in 1..n :
          /\ SubSeq(prompt, Offset(ms, k) + 1, Offset(ms, k) + Len(ms[k].content))
               = ms[k].content
          /\ k < n => prompt[Offset(ms, k + 1)] = "\n"

C25_Messages ==
  LET ms == lastRequest.options.messages
      sent == lastRequest.request.messages
      lead == Len(sent) - Len(ms)
  IN /\ lead \in {0, 1}
     /\ \A k \in 1..Len(ms) : sent[k + lead] = ms[k]

\* C25: the Ollama prompt consists of the contents of options.messages in
\* the given order, separated by single newlines, and the LM Studio request's
\* messages are options.messages, role and content, in the given order (after
\* the system message, if one was added).
C25_OrderPreserved ==
  lastRequest.client # 0 =>
    IF SenderKind = "lmstudio" THEN C25_Messages ELSE C25_Prompt

\* a request made from two different messages
C25_Witness ==
  /\ lastRequest.client # 0
  /\ Len(lastRequest.options.messages) >= 2
  /\ lastRequest.options.messages[1] # lastRequest.options.messages[2]

\* the adapters call c constructed
Built(c) == {calls[c].tried[k] : k \in 1..Len(calls[c].tried)}

\* C26: every adapter an initAI call constructs starts from the defaults and
\* the call's own config, and a call that resolves never returns an adapter
\* that an earlier call constructed.
C26_FreshInstance ==
  \A c \in 1..Len(calls) :
    /\ \A k \in 1..Len(calls[c].tried) :
         LET a == adapters[calls[c].tried[k]]
         IN /\ a.config = NewAdapter(a.provider, calls[c].config).config
            /\ a.model = NewAdapter(a.provider, calls[c].config).model
    /\ calls[c].pc = "resolved" =>
         \A d \in 1..(c - 1) : calls[c].result \notin Built(d)

\* ---------------------------------------------------------------------------
\* setModel / updateConfig on the adapter while its complete() is in flight
\* ---------------------------------------------------------------------------

InFlight == ccall.pc \in {"attempt", "sleep"}

\* the adapter of the running complete() runs setModel(model)
SetModelInFlight(model) ==
  /\ InFlight
  /\ adapters' = [adapters EXCEPT
                    ![ccall.client] = WithModel(@.provider, @, model)]
  /\ UNCHANGED <<aiClient, currentProvider, calls, lastGet, now, ccall>>
  /\ UNCHANGED opVars

\* the partial configurations passed to updateConfig meanwhile
InFlightPartials ==
  {[apiBaseUrl |-> "http://remote"], [defaultModel |-> "other"]}

\* the adapter of the running complete() runs updateConfig(partial)
UpdateConfigInFlight(partial) ==
  /\ InFlight
  /\ adapters' = [adapters EXCEPT ![ccall.client] = WithConfig(@, partial)]
  /\ UNCHANGED <<aiClient, currentProvider, calls, lastGet, now, ccall>>
  /\ UNCHANGED opVars

\* adapters that retry once, after a short timeout
InFlightConfigs ==
  {[provider |-> p, timeout |-> 50, retryOptions |-> CallerRetryOptions] :
     p \in KnownProviders}

InitInFlight ==
  /\ \E config \in InFlightConfigs : ReadyState(config)
  /\ lastGet = [status |-> "none", client |-> 0, error |-> NoError]
  /\ now = 0
  /\ ccall = CIdle
  /\ probeOps = <<>>
  /\ completions = <<>>
  /\ NoClients
  /\ lastRequest = NoRequest
  /\ cli = CliOff
  /\ auth = AuthOff

NextInFlight ==
  \/ NextComplete
  \/ \E model \in SetModels : SetModelInFlight(model)
  \/ \E partial \in InFlightPartials : UpdateConfigInFlight(partial)

SpecInFlight == InitInFlight /\ [][NextInFlight]_vars

\* C27: all HTTP attempts of one complete() call go to one base URL (the
\* model and the body are those built before the first attempt), whatever
\* setModel and updateConfig calls run meanwhile.
C27_OneRequest ==
  ccall.pc # "idle" => Cardinality(ccall.targets) = 1

\* ---------------------------------------------------------------------------
\* The command line program: loadConfig, initAI, executeCommand, exit code
\* ---------------------------------------------------------------------------

\* provider names found in a config file, KNIGHTCODE_AI_PROVIDER or --provider
ProviderNames == {"ollama", "lmstudio", "foo"}

\* DEFAULT_CONFIG.ai of the config loader (provider and model)
DefaultAi == [provider |-> "ollama", model |-> "devstral:24b"]

\* the ai section of the first config file found; <<>> when there is none
FileConfigs ==
  {<<>>, [provider |-> ""], [provider |-> "lmstudio"],
   [provider |-> "foo"], [provider |-> "lmstudio", model |-> "m2"]}

\* KNIGHTCODE_AI_PROVIDER; "" when unset
EnvProviders == {"", "lmstudio", "foo"}

\* options parsed from --provider=<name> and --model=<name>
CliOptions ==
  {<<>>, [model |-> "m2"]}
    \cup {[provider |-> p] : p \in ProviderNames}
    \cup {[provider |-> "lmstudio", model |-> "m2"]}

\* loadConfigFromEnv: a variable that is unset or empty adds nothing
EnvConfig(envProvider) ==
  IF envProvider # "" THEN [provider |-> envProvider] ELSE <<>>

\* the cliConfig.ai that loadConfig builds from the options
CliConfig(options) ==
  LET p == IF Truthy(Get(options, "provider"))
           THEN [provider |-> options.provider] ELSE <<>>
      m == IF Truthy(Get(options, "model"))
           THEN [model |-> options.model] ELSE <<>>
  IN ShallowMerge(p, m)

\* mergeConfigs on the ai section: every key of the later source wins
MergeConfigs(base, over) == ShallowMerge(base, over)

\* thrown by validateConfig
ProviderNotConfigured ==
  UserError("AI provider is not configured", "configuration", {}, "")

\* validateConfig: rejects a provider that is empty, accepts any other name
ValidateConfig(ai) ==
  IF ai.provider = "" THEN ProviderNotConfigured ELSE NoError

\* loadConfig(options): defaults, then the file, then the environment, then
\* the options; the result keeps the selection under the key ai
LoadConfig(file, envProvider, options) ==
  LET ai == MergeConfigs(MergeConfigs(MergeConfigs(DefaultAi, file),
                                      EnvConfig(envProvider)),
                         CliConfig(options))
  IN [config |-> [ai |-> ai], error |-> ValidateConfig(ai)]

\* the object initAI(config) works with: it reads config.provider and the
\* adapter constructors read the keys of their DEFAULT_CONFIG
InitAIConfig(config) ==
  ShallowMerge([provider |-> StrOr(config, "provider", "")],
               Restrict(config, AdapterKeys))

\* how executeCommand settles
CommandOutcomes == {"completes", "UserError", "Error"}

HandleError_Swapped(name) == IF name = "UserError" THEN 2 ELSE 1

\* handleError: process.exit(1) for a UserError, process.exit(2) otherwise
HandleError(name) == IF name = "UserError" THEN 1 ELSE 2

\* initCLI up to loadConfig's return or throw, for a registered command
CliStart(file, envProvider, options, needsAI) ==
  /\ cli.pc = "off"
  /\ LET loaded == IF needsAI THEN LoadConfig(file, envProvider, options)
                   ELSE [config |-> <<>>, error |-> NoError]
     IN cli' = [pc |-> IF needsAI THEN "init" ELSE "execute",
                needsAI |-> needsAI,
                file |-> file, env |-> envProvider, options |-> options,
                config |-> loaded.config, error |-> loaded.error,
                settled |-> "", exit |-> 0]
  /\ UNCHANGED <<aiClient, currentProvider, adapters, calls, lastGet, now, ccall>>
  /\ UNCHANGED <<probeOps, completions, cfgVars, lastRequest, auth>>

\* initCLI calls initAI(config) with the configuration loadConfig returned
CliInitAI ==
  /\ cli.pc = "init"
  /\ cli.error = NoError
  /\ Len(calls) = 0
  /\ InitAI(InitAIConfig(cli.config))

\* loadConfig or initAI is over
CliInitOver ==
  /\ cli.pc = "init"
  /\ \/ cli.error # NoError
     \/ Len(calls) = 1 /\ ~InProgress(1)

\* initCLI from there: a failure is logged as a warning, then executeCommand
\* runs and settles with outcome; the process exits
CliExecute(outcome) ==
  /\ cli.pc = "execute" \/ CliInitOver
  /\ cli' = [cli EXCEPT
               !.pc = "exited", !.settled = outcome,
               !.exit = IF outcome = "completes" THEN 0 ELSE HandleError(outcome)]
  /\ UNCHANGED <<aiClient, currentProvider, adapters, calls, lastGet, now, ccall>>
  /\ UNCHANGED <<probeOps, completions, cfgVars, lastRequest, auth>>

NextCLI ==
  \/ \E file \in FileConfigs, envProvider \in EnvProviders,
        options \in CliOptions, needsAI \in BOOLEAN :
       CliStart(file, envProvider, options, needsAI)
  \/ CliInitAI
  \/ \E r \in BOOLEAN : ProbeSettles(1, r)
  \/ ProbeTimeout(1)
  \/ \E outcome \in CommandOutcomes : CliExecute(outcome)

SpecCLI == Init /\ [][NextCLI]_vars

\* the run loads the configuration and initializes the AI provider
AIRun == cli.pc # "off" /\ cli.needsAI

\* the sources of the run that name a provider, strongest first
Selections ==
  (IF Has(cli.options, "provider") THEN <<cli.options.provider>> ELSE <<>>)
    \o (IF cli.env # "" THEN <<cli.env>> ELSE <<>>)
    \o (IF Has(cli.file, "provider") THEN <<cli.file.provider>> ELSE <<>>)

\* the provider the run's configuration selects
Selected == Selections[1]

\* C28: a run whose provider selection is empty or not a known provider ends
\* its initialization with a Configuration error and no adapter is ever
\* constructed or probed for it.
C28_ConfigurationError ==
  (AIRun /\ Selections # <<>> /\ Selected \notin KnownProviders) =>
    /\ cli.error.category = "configuration"
    /\ adapters = <<>>

\* C29: in a run whose configuration selects lmstudio the first adapter
\* initAI probes is the LM Studio adapter, and the adapter initAI resolves
\* to uses the model the configuration or --model selects.
C29_SelectionTakesEffect ==
  (AIRun /\ Len(calls) = 1) =>
    /\ (Selections # <<>> /\ Selected = "lmstudio") =>
         adapters[calls[1].tried[1]].provider = "lmstudio"
    /\ calls[1].pc = "resolved" =>
         LET a == adapters[calls[1].result]
         IN GetModel(a.provider, a) = cli.config.ai.model

\* loadConfig or initAI threw a UserError in this run
InitFailed ==
  /\ AIRun
  /\ \/ cli.error.name = "UserError"
     \/ Len(calls) = 1 /\ calls[1].pc = "rejected"
                       /\ calls[1].error.name = "UserError"

----------------------------------------------------------------------------
(* Claims about overlapping initAI calls, the provider name and the probes *)

\* every initAI call has settled
AllSettled == Len(calls) > 0 /\ ~AnyInProgress

C31_Resolved ==
  \A c \in 1..Len(calls) :
    (~calls[c].alone /\ calls[c].pc = "resolved") =>
      /\ calls[c].result \in Built(c)
      /\ adapters[calls[c].result].probe = "true"

C31_Settled ==
  (AllSettled /\ \E c \in 1..Len(calls) : ~calls[c].alone) =>
    \/ \A c \in 1..Len(calls) : calls[c].pc = "rejected"
    \/ aiClient # 0 /\ adapters[aiClient].probe = "true"

\* C31: an initAI call that overlapped with another and resolves returns an
\* adapter it probed itself with result true, and once all calls have
\* settled the process-wide client is an adapter whose probe was true,
\* unless every call failed.
C31_OverlapSafe == C31_Resolved /\ C31_Settled

\* C32: whenever a client is present, getCurrentProvider() is the
\* getProviderName() of that client, and is 'ollama' or 'lmstudio'.
C32_ProviderMatchesClient ==
  aiClient # 0 =>
    /\ currentProvider = adapters[aiClient].provider
    /\ currentProvider \in KnownProviders

C33_Call(c) ==
  LET call == calls[c]
      n == Len(call.tried)
  IN /\ n \in {1, 2}
     /\ call.preferred \in KnownProviders =>
          adapters[call.tried[1]].provider = call.preferred
     /\ call.first = "true" => n = 1
     /\ call.first = "none" => n = 1 /\ adapters[call.tried[1]].probe = "pending"
     /\ n = 2 =>
          /\ call.first = "false"
          /\ adapters[call.tried[1]].probe = "false"
          /\ call.tried[2] # call.tried[1]
          /\ adapters[call.tried[2]].provider
               # adapters[call.tried[1]].provider
          /\ adapters[call.tried[2]].provider \in KnownProviders
     /\ call.second # "none" => n = 2
     /\ \A d \in 1..Len(calls) : d # c => Built(c) \cap Built(d) = {}

\* C33: an initAI call probes one or two adapters: first the adapter of the
\* preferred provider and, only after that probe returned false, one adapter
\* of the other provider; never a second adapter after a first probe that
\* returned true, and never the same adapter twice.
C33_ProbeOrder == \A c \in 1..Len(calls) : C33_Call(c)

\* a call whose preferred LM Studio probe was false and whose Ollama probe
\* then settled
C33_Witness ==
  \E c \in 1..Len(calls) :
    /\ calls[c].preferred = "lmstudio"
    /\ Len(calls[c].tried) = 2
    /\ calls[c].second = "true"
    /\ adapters[calls[c].tried[2]].provider = "ollama"

----------------------------------------------------------------------------
(* complete() against a backend that answers the status line and then
   stalls while the body is read *)

\* the status line and headers of a 2xx answer arrive for the current
\* attempt.  LM Studio: the retried operation is the bare fetch, which
\* resolves now; complete() goes on to await response.json(), outside
\* withTimeout and withRetry.  Ollama: sendRequest goes on to await
\* response.json() inside the timeout-wrapped operation, so the attempt
\* stays pending
HeadersArrive ==
  /\ ccall.pc = "attempt"
  /\ ccall.kind = "lmstudio"
  /\ ccall' = [ccall EXCEPT !.pc = "body", !.prevEnd = now]
  /\ UNCHANGED <<aiClient, currentProvider, adapters, calls, lastGet, now>>
  /\ UNCHANGED opVars

\* the body arrives after all and response.json() settles
BodyArrives(answer) ==
  /\ ccall.pc = "body"
  /\ answer \in {"ok", "malformed"}
  /\ ccall' = [ccall EXCEPT !.pc = "done", !.seen = @ \cup {answer},
                            !.result = CompleteResolution(ccall.kind, answer)]
  /\ UNCHANGED <<aiClient, currentProvider, adapters, calls, lastGet, now>>
  /\ UNCHANGED opVars

NextStall ==
  \/ NextComplete
  \/ HeadersArrive
  \/ \E answer \in CompleteAnswers : BodyArrives(answer)

\* armed timers fire and time passes; no backend owes an answer
FairStall ==
  /\ InitComplete
  /\ [][NextStall]_vars
  /\ WF_vars(AttemptTimeout)
  /\ WF_vars(Wake)
  /\ WF_vars(AdvanceTime)

\* C34: a complete() call that was started eventually settles.
C34_CompleteSettles == (ccall.pc # "idle") ~> (ccall.pc = "done")

\* C35: a completeStream invocation whose completion failed has yielded no
\* event, and the error its consumer's first pull rejects with is the error
\* complete() raises on the same adapter for the same failure.
C35_StreamFailure ==
  \A i \in Streams :
    completions[i].pc = "threw" =>
      /\ completions[i].events = <<>>
      /\ completions[i].error.name # ""
      /\ completions[i].error =
           CompleteError(KindOf(i), completions[i].failure)
      /\ \A j \in 1..Len(completions) :
           (/\ completions[j].via = "complete"
            /\ completions[j].pc = "rejected"
            /\ KindOf(j) = KindOf(i)
            /\ completions[j].failure = completions[i].failure)
           => completions[j].error = completions[i].error

\* a stream and a complete() call that met the same failure
C35_Witness ==
  \E i \in Streams, j \in 1..Len(completions) :
    /\ completions[i].pc = "threw"
    /\ completions[j].via = "complete"
    /\ completions[j].pc = "rejected"
    /\ completions[j].failure = completions[i].failure
    /\ KindOf(j) = KindOf(i)

\* C36: on every adapter instance getModel() equals getConfig().defaultModel,
\* and a request sent by complete() without options.model names that value.
C36_ModelIsDefaultModel ==
  /\ [](\A i \in 1..Len(clients) :
          CurrentModel(i) = SpreadCopy(clients[i].config).defaultModel)
  /\ [][RequestSent =>
          LET sent == lastRequest'
          IN ~Has(sent.options, "model") =>
               sent.request.model =
                 SpreadCopy(clients[sent.client].config).defaultModel]_vars

----------------------------------------------------------------------------
(* The AuthManager (auth/manager): state, current token, token storage.    *)
(* A token is modelled by its accessToken.  The token storage and the      *)
(* OAuth flow are collaborators: each of their promises resolves or        *)
(* rejects, in any order relative to the others.                           *)

MaxAuthOps == 3        \* AuthManager operations started per behaviour

\* process.env.ANTHROPIC_API_KEY: unset, or a key
ApiKeys == {"", "key"}

\* what token storage holds under tokenKey when the manager is constructed
StoredTokens == {NoToken, "stored"}

\* the token a successful OAuth flow returns
OAuthToken == "oauth"

\* the method argument of authenticate(): API_KEY, OAUTH, or none/unknown
AuthMethods == {"api_key", "oauth", "none"}

\* how a promise of token storage settles
StorageOutcomes == {"ok", "fail"}

\* how performOAuthFlow settles: { success: true, token }, { success: false },
\* or a rejection
OAuthOutcomes == {"token", "unsuccessful", "rejects"}

\* positions of an operation that has not settled
AuthAwaits == {"getToken", "saveToken", "oauthFlow", "deleteToken"}

AuthInFlight(i) == auth.ops[i].pc \in AuthAwaits

AnyAuthInFlight == \E i \in 1..Len(auth.ops) : AuthInFlight(i)

NoResult == [success |-> FALSE, state |-> ""]

\* the operations so far with a new one started; whatever is in flight now
\* has run beside another operation
StartOp(op) ==
  Append([i \in 1..Len(auth.ops) |->
            IF AuthInFlight(i) THEN [auth.ops[i] EXCEPT !.alone = FALSE]
            ELSE auth.ops[i]],
         [op EXCEPT !.alone = ~AnyAuthInFlight])

\* new AuthManager(config)
NewAuthManager(stored, apiKey, oauth) ==
  [state |-> "INITIAL", currentToken |-> NoToken, stored |-> stored,
   apiKey |-> apiKey, oauth |-> oauth, ops |-> <<>>]

\* isAuthenticated()
IsAuthenticated ==
  auth.state = "AUTHENTICATED" /\ auth.currentToken # NoToken

\* getAuthorizationHeader(): null, or `Bearer <accessToken>`
GetAuthorizationHeader ==
  IF auth.currentToken = NoToken THEN <<>>
  ELSE <<"Bearer", auth.currentToken>>

\* the catch block of authenticate()
AuthFailed == [success |-> FALSE, state |-> "FAILED"]

\* initialize() up to `await this.tokenStorage.getToken(...)`
AuthInitialize ==
  /\ auth.state # "unloaded"
  /\ Len(auth.ops) < MaxAuthOps
  /\ auth' = [auth EXCEPT
       !.ops = StartOp([op |-> "initialize", method |-> "", pc |-> "getToken",
                        token |-> NoToken, result |-> NoResult,
                        alone |-> TRUE])]
  /\ UNCHANGED <<aiClient, currentProvider, adapters, calls, lastGet, now, ccall>>
  /\ UNCHANGED <<probeOps, completions, cfgVars, lastRequest, cli>>

\* getToken settles: a stored token becomes the current one
GetTokenSettles(i, outcome) ==
  /\ i \in 1..Len(auth.ops)
  /\ auth.ops[i].pc = "getToken"
  /\ outcome \in StorageOutcomes
  /\ auth' =
       IF outcome = "fail"
       THEN [auth EXCEPT !.state = "FAILED", !.ops[i].pc = "resolved"]
       ELSE IF auth.stored # NoToken
       THEN [auth EXCEPT !.currentToken = auth.stored,
                         !.state = "AUTHENTICATED",
                         !.ops[i].pc = "resolved"]
       ELSE [auth EXCEPT !.ops[i].pc = "resolved"]
  /\ UNCHANGED <<aiClient, currentProvider, adapters, calls, lastGet, now, ccall>>
  /\ UNCHANGED <<probeOps, completions, cfgVars, lastRequest, cli>>

\* what authenticate(method) throws before its first await: no API key, no
\* OAuth configuration, or no valid method
ThrowsAtOnce(method) ==
  \/ method = "api_key" /\ auth.apiKey = ""
  \/ method = "oauth" /\ ~auth.oauth
  \/ method \notin {"api_key", "oauth"}

\* authenticate(method) up to its first await
Authenticate(method) ==
  /\ auth.state # "unloaded"
  /\ Len(auth.ops) < MaxAuthOps
  /\ method \in AuthMethods
  /\ LET op == [op |-> "authenticate", method |-> method, pc |-> "resolved",
                token |-> NoToken, result |-> AuthFailed, alone |-> TRUE]
     IN auth' =
          IF ThrowsAtOnce(method)
          THEN [auth EXCEPT !.state = "FAILED", !.ops = StartOp(op)]
          ELSE IF method = "api_key"
          THEN [auth EXCEPT
                  !.state = "AUTHENTICATING",
                  !.currentToken = auth.apiKey,
                  !.ops = StartOp([op EXCEPT !.pc = "saveToken",
                                             !.token = auth.apiKey,
                                             !.result = NoResult])]
          ELSE [auth EXCEPT
                  !.state = "AUTHENTICATING",
                  !.ops = StartOp([op EXCEPT !.pc = "oauthFlow",
                                             !.result = NoResult])]
  /\ UNCHANGED <<aiClient, currentProvider, adapters, calls, lastGet, now, ccall>>
  /\ UNCHANGED <<probeOps, completions, cfgVars, lastRequest, cli>>

\* performOAuthFlow settles
OAuthFlowSettles(i, outcome) ==
  /\ i \in 1..Len(auth.ops)
  /\ auth.ops[i].pc = "oauthFlow"
  /\ outcome \in OAuthOutcomes
  /\ auth' =
       CASE outcome = "token" ->
              [auth EXCEPT !.currentToken = OAuthToken,
                           !.ops[i].pc = "saveToken",
                           !.ops[i].token = OAuthToken]
         [] outcome = "unsuccessful" ->
              [auth EXCEPT !.ops[i].pc = "resolved",
                           !.ops[i].result = [success |-> FALSE,
                                              state |-> ""]]
         [] outcome = "rejects" ->
              [auth EXCEPT !.state = "FAILED",
                           !.ops[i].pc = "resolved",
                           !.ops[i].result = AuthFailed]
  /\ UNCHANGED <<aiClient, currentProvider, adapters, calls, lastGet, now, ccall>>
  /\ UNCHANGED <<probeOps, completions, cfgVars, lastRequest, cli>>

\* saveToken settles in authenticateWithApiKey / authenticateWithOAuth
SaveTokenSettles(i, outcome) ==
  /\ i \in 1..Len(auth.ops)
  /\ auth.ops[i].pc = "saveToken"
  /\ outcome \in StorageOutcomes
  /\ auth' =
       IF outcome = "ok"
       THEN [auth EXCEPT !.stored = auth.ops[i].token,
                         !.state = "AUTHENTICATED",
                         !.ops[i].pc = "resolved",
                         !.ops[i].result = [success |-> TRUE,
                                            state |-> "AUTHENTICATED"]]
       ELSE [auth EXCEPT !.state = "FAILED",
                         !.ops[i].pc = "resolved",
                         !.ops[i].result = AuthFailed]
  /\ UNCHANGED <<aiClient, currentProvider, adapters, calls, lastGet, now, ccall>>
  /\ UNCHANGED <<probeOps, completions, cfgVars, lastRequest, cli>>

\* logout() up to `await this.tokenStorage.deleteToken(...)`
Logout ==
  /\ auth.state # "unloaded"
  /\ Len(auth.ops) < MaxAuthOps
  /\ auth' = [auth EXCEPT
       !.ops = StartOp([op |-> "logout", method |-> "", pc |-> "deleteToken",
                        token |-> NoToken, result |-> NoResult,
                        alone |-> TRUE])]
  /\ UNCHANGED <<aiClient, currentProvider, adapters, calls, lastGet, now, ccall>>
  /\ UNCHANGED <<probeOps, completions, cfgVars, lastRequest, cli>>

\* deleteToken settles: logout() clears the token and the state, or rejects
DeleteTokenSettles(i, outcome) ==
  /\ i \in 1..Len(auth.ops)
  /\ auth.ops[i].pc = "deleteToken"
  /\ outcome \in StorageOutcomes
  /\ auth' =
       IF outcome = "ok"
       THEN [auth EXCEPT !.stored = NoToken,
                         !.currentToken = NoToken,
                         !.state = "INITIAL",
                         !.ops[i].pc = "resolved"]
       ELSE [auth EXCEPT !.ops[i].pc = "rejected"]
  /\ UNCHANGED <<aiClient, currentProvider, adapters, calls, lastGet, now, ccall>>
  /\ UNCHANGED <<probeOps, completions, cfgVars, lastRequest, cli>>

InitAuth ==
  /\ aiClient = 0
  /\ currentProvider = "ollama"
  /\ adapters = <<>>
  /\ calls = <<>>
  /\ lastGet = [status |-> "none", client |-> 0, error |-> NoError]
  /\ now = 0
  /\ ccall = CIdle
  /\ probeOps = <<>>
  /\ completions = <<>>
  /\ NoClients
  /\ lastRequest = NoRequest
  /\ cli = CliOff
  /\ \E stored \in StoredTokens, apiKey \in ApiKeys, oauth \in BOOLEAN :
       auth = NewAuthManager(stored, apiKey, oauth)

NextAuth ==
  \/ AuthInitialize
  \/ \E method \in AuthMethods : Authenticate(method)
  \/ Logout
  \/ \E i \in 1..MaxAuthOps, outcome \in StorageOutcomes :
       \/ GetTokenSettles(i, outcome)
       \/ SaveTokenSettles(i, outcome)
       \/ DeleteTokenSettles(i, outcome)
  \/ \E i \in 1..MaxAuthOps, outcome \in OAuthOutcomes :
       OAuthFlowSettles(i, outcome)

SpecAuth == InitAuth /\ [][NextAuth]_vars

\* C37: in every reachable state of the AuthManager, state = AUTHENTICATED
\* implies a non-null current token, so that isAuthenticated() is true
\* exactly when the state is AUTHENTICATED.
C37_AuthenticatedHasToken ==
  /\ auth.state = "AUTHENTICATED" => auth.currentToken # NoToken
  /\ IsAuthenticated <=> auth.state = "AUTHENTICATED"

\* the operation started last
LastOp == auth.ops[Len(auth.ops)]

\* the operation started last has settled, and none ran beside it
SettledAlone(op) ==
  /\ Len(auth.ops) > 0
  /\ LastOp.op = op
  /\ LastOp.alone
  /\ LastOp.pc \notin AuthAwaits

\* C38: authenticate(method) never rejects; once it has settled with no
\* other operation running, the state is AUTHENTICATED or FAILED and
\* result.success is true exactly when the state is AUTHENTICATED.
C38_AuthenticateSettles ==
  /\ \A i \in 1..Len(auth.ops) :
       auth.ops[i].op = "authenticate" => auth.ops[i].pc # "rejected"
  /\ SettledAlone("authenticate") =>
       /\ auth.state \in {"AUTHENTICATED", "FAILED"}
       /\ LastOp.result.success <=> auth.state = "AUTHENTICATED"

\* C39: whenever no operation is in flight, a non-null current token (a
\* non-null authorization header) is the token that is stored; after a
\* logout() that resolved, the token and the header are null, the state is
\* INITIAL and nothing is stored.
C39_TokenAgreesWithStorage ==
  ~AnyAuthInFlight =>
    /\ GetAuthorizationHeader # <<>> <=> auth.currentToken # NoToken
    /\ auth.currentToken # NoToken => auth.stored = auth.currentToken
    /\ (SettledAlone("logout") /\ LastOp.pc = "resolved") =>
         /\ auth.currentToken = NoToken
         /\ GetAuthorizationHeader = <<>>
         /\ auth.state = "INITIAL"
         /\ auth.stored = NoToken

====
